---- MODULE Spec2Model ----
(***************************************************************************)
(* Model of the songnft ink! contract (src/songnft/lib.rs): a multi-token  *)
(* ledger with create, mint, balance_of, balance_of_batch and the          *)
(* rejecting token-receiver entry points.  One action per message; the     *)
(* host runs one message at a time to completion.                          *)
(***************************************************************************)
EXTENDS Integers, Sequences, FiniteSets, TLC

\* ------------------------------------------------------------------------
\* Bounds of the model
\* ------------------------------------------------------------------------
MaxAccount == 1
MaxToken == 1
MaxValue == 1
MaxEvents == 2
MaxBatch == 2

\* ------------------------------------------------------------------------
\* Types
\* ------------------------------------------------------------------------
\* AccountId: 32 opaque bytes; account 0 stands for the all-zero value.
AccountId == 0..MaxAccount
zero_address == 0
TokenId == 1..MaxToken
Balance == 0..MaxValue

\* Option<T>
None == <<>>
Some(x) == <<x>>

\* Error kinds of the shared result type
Error ==
    {"UnexistentToken", "ZeroAddressTransfer", "NotApproved",
     "InsufficientBalance", "SelfApproval", "BatchTransferMismatch",
     "TokenAlreadyExists", "UnexistentTokenOrCallerNotOwner"}

\* The TransferSingle event
TransferSingle_swapped(operator, from, to, token_id, value) ==
    [operator |-> to, from |-> from, to |-> operator,
     token_id |-> token_id, value |-> value]

TransferSingle(operator, from, to, token_id, value) ==
    [operator |-> operator, from |-> from, to |-> to,
     token_id |-> token_id, value |-> value]

\* Sequences of length 0..n over S
SeqsUpTo(S, n) == UNION {[1..k -> S] : k \in 0..n}

\* Inputs of the batch query: every pair of sequences up to MaxBatch long,
\* and the few the ledger specification interleaves with the other messages
OwnerSeqs == SeqsUpTo(AccountId, MaxBatch)
TokenSeqs == SeqsUpTo(TokenId, MaxBatch)
ProbeOwners == {<<>>, <<zero_address>>, <<MaxAccount, zero_address>>}
ProbeTokens == {<<>>, <<MaxToken>>}

\* Inputs of the receiver entry points (all of them ignored by the code)
ReceivedFrom == {zero_address}
ReceivedTokenIds == {MaxToken}
ReceivedValues == {MaxValue}
ReceivedTokenSeqs == {<<MaxToken>>}
ReceivedValueSeqs == {<<MaxValue>>}
Data == {<<0>>}

\* ------------------------------------------------------------------------
\* State
\* ------------------------------------------------------------------------
VARIABLES
    balances,      \* Mapping<(AccountId, TokenId), Balance>: a partial function
    approvals,     \* Mapping<(Owner, Operator), ()>: the set of keys present
    events,        \* the events emitted so far, oldest first
    call,          \* the message dispatched last and its arguments
    ret,           \* what that message returned
    createCalled,  \* history: the (caller, token_id) pairs create was called with
    createOk       \* history: per pair, how many create calls returned Ok

vars == <<balances, approvals, events, call, ret, createCalled, createOk>>

Keys == AccountId \X TokenId

\* ------------------------------------------------------------------------
\* ink::storage::Mapping
\* ------------------------------------------------------------------------
contains_nonzero(m, k) == k \in DOMAIN m /\ m[k] # 0
contains_any(m, k) == \E a \in AccountId : <<a, k[2]>> \in DOMAIN m

contains(m, k) == k \in DOMAIN m

insert_add(m, k, v) ==
    [x \in (DOMAIN m) \cup {k} |->
        IF x = k THEN (IF k \in DOMAIN m THEN m[k] + v ELSE v) ELSE m[x]]

insert_by_token(m, k, v) ==
    [x \in (DOMAIN m) \cup {k} |-> IF x[2] = k[2] THEN v ELSE m[x]]

insert_clearing(m, k, v) == [x \in {k} |-> v]

insert(m, k, v) == [x \in (DOMAIN m) \cup {k} |-> IF x = k THEN v ELSE m[x]]

get(m, k) == IF k \in DOMAIN m THEN Some(m[k]) ELSE None

unwrap_or_one(opt, default) == IF opt = None THEN 1 ELSE opt[1]

unwrap_or(opt, default) == IF opt = None THEN default ELSE opt[1]

\* self.env().emit_event(..)
emit_event_front(log, e) == <<e>> \o log

emit_event(log, e) == Append(log, e)

\* ------------------------------------------------------------------------
\* Records of the last call
\* ------------------------------------------------------------------------
Call(op, caller, token_id, value, owners, token_ids) ==
    [op |-> op, caller |-> caller, token_id |-> token_id, value |-> value,
     owners |-> owners, token_ids |-> token_ids]

NoCall == Call("new", None, 0, 0, <<>>, <<>>)

Ret(tag, err, id, amount, output) ==
    [tag |-> tag, err |-> err, id |-> id, amount |-> amount, output |-> output]

OkId(id) == Ret("Ok", "", id, 0, <<>>)
OkUnit == Ret("Ok", "", 0, 0, <<>>)
Err(e) == Ret("Err", e, 0, 0, <<>>)
Amount(a) == Ret("Value", "", 0, a, <<>>)
Output(o) == Ret("Value", "", 0, 0, o)
Abort == Ret("Abort", "", 0, 0, <<>>)

\* ------------------------------------------------------------------------
\* Contract::new
\* ------------------------------------------------------------------------
Init ==
    /\ balances = <<>>
    /\ approvals = {}
    /\ events = <<>>
    /\ call = NoCall
    /\ ret = OkUnit
    /\ createCalled = {}
    /\ createOk = [k \in Keys |-> 0]

\* ------------------------------------------------------------------------
\* Contract::create
\* ------------------------------------------------------------------------
create_to_caller(caller, value) == Some(caller)

create_to(caller, value) == IF value = 0 THEN None ELSE Some(caller)

create_self_approving(caller, value, token_id) ==
    /\ call' = Call("create", Some(caller), token_id, value, <<>>, <<>>)
    /\ createCalled' = createCalled \cup {<<caller, token_id>>}
    /\ IF contains(balances, <<caller, token_id>>)
       THEN /\ ret' = Err("TokenAlreadyExists")
            /\ UNCHANGED <<balances, events, createOk, approvals>>
       ELSE /\ Len(events) < MaxEvents
            /\ balances' = insert(balances, <<caller, token_id>>, value)
            /\ approvals' = approvals \cup {<<caller, caller>>}
            /\ events' = emit_event(events,
                   TransferSingle(Some(caller), None, create_to(caller, value),
                                  token_id, value))
            /\ ret' = OkId(token_id)
            /\ createOk' = [createOk EXCEPT ![<<caller, token_id>>] = @ + 1]

create(caller, value, token_id) ==
    /\ call' = Call("create", Some(caller), token_id, value, <<>>, <<>>)
    /\ createCalled' = createCalled \cup {<<caller, token_id>>}
    /\ UNCHANGED approvals
    /\ IF contains(balances, <<caller, token_id>>)
       THEN /\ ret' = Err("TokenAlreadyExists")
            /\ UNCHANGED <<balances, events, createOk>>
       ELSE /\ Len(events) < MaxEvents
            /\ balances' = insert(balances, <<caller, token_id>>, value)
            /\ events' = emit_event(events,
                   TransferSingle(Some(caller), None, create_to(caller, value),
                                  token_id, value))
            /\ ret' = OkId(token_id)
            /\ createOk' = [createOk EXCEPT ![<<caller, token_id>>] = @ + 1]

\* ------------------------------------------------------------------------
\* Contract::mint
\* ------------------------------------------------------------------------
mint_unchecked(caller, token_id, value) ==
    /\ Len(events) < MaxEvents
    /\ call' = Call("mint", Some(caller), token_id, value, <<>>, <<>>)
    /\ balances' = insert(balances, <<caller, token_id>>, value)
    /\ events' = emit_event(events,
           TransferSingle(Some(caller), None, Some(caller), token_id, value))
    /\ ret' = OkUnit
    /\ UNCHANGED <<approvals, createCalled, createOk>>

mint(caller, token_id, value) ==
    /\ call' = Call("mint", Some(caller), token_id, value, <<>>, <<>>)
    /\ UNCHANGED <<approvals, createCalled, createOk>>
    /\ IF ~contains(balances, <<caller, token_id>>)
       THEN /\ ret' = Err("UnexistentTokenOrCallerNotOwner")
            /\ UNCHANGED <<balances, events>>
       ELSE /\ Len(events) < MaxEvents
            /\ balances' = insert(balances, <<caller, token_id>>, value)
            /\ events' = emit_event(events,
                   TransferSingle(Some(caller), None, Some(caller), token_id, value))
            /\ ret' = OkUnit

\* ------------------------------------------------------------------------
\* Songnft::balance_of, Songnft::balance_of_batch
\* ------------------------------------------------------------------------
balance_of(m, owner, token_id) == unwrap_or(get(m, <<owner, token_id>>), 0)

\* for t in &token_ids { output.push(self.balance_of(*o, *t)) }
RECURSIVE inner_loop(_, _, _, _, _)
inner_loop(m, o, token_ids, j, output) ==
    IF j > Len(token_ids) THEN output
    ELSE inner_loop(m, o, token_ids, j + 1,
                    Append(output, balance_of(m, o, token_ids[j])))

\* for o in &owners { .. }
RECURSIVE outer_loop(_, _, _, _, _)
outer_loop(m, owners, token_ids, i, output) ==
    IF i > Len(owners) THEN output
    ELSE outer_loop(m, owners, token_ids, i + 1,
                    inner_loop(m, owners[i], token_ids, 1, output))

Min(a, b) == IF a < b THEN a ELSE b

balance_of_batch_paired(m, owners, token_ids) ==
    [i \in 1..Min(Len(owners), Len(token_ids)) |->
        balance_of(m, owners[i], token_ids[i])]

balance_of_batch(m, owners, token_ids) ==
    outer_loop(m, owners, token_ids, 1, <<>>)

call_balance_of_inserting(owner, token_id) ==
    /\ call' = Call("balance_of", None, token_id, 0, <<owner>>, <<token_id>>)
    /\ ret' = Amount(balance_of(balances, owner, token_id))
    /\ balances' = IF contains(balances, <<owner, token_id>>) THEN balances
                   ELSE insert(balances, <<owner, token_id>>, 0)
    /\ UNCHANGED <<approvals, events, createCalled, createOk>>

call_balance_of(owner, token_id) ==
    /\ call' = Call("balance_of", None, token_id, 0, <<owner>>, <<token_id>>)
    /\ ret' = Amount(balance_of(balances, owner, token_id))
    /\ UNCHANGED <<balances, approvals, events, createCalled, createOk>>

call_balance_of_batch_checked(owners, token_ids) ==
    /\ call' = Call("balance_of_batch", None, 0, 0, owners, token_ids)
    /\ ret' = IF Len(owners) # Len(token_ids) THEN Err("BatchTransferMismatch")
              ELSE Output(balance_of_batch(balances, owners, token_ids))
    /\ UNCHANGED <<balances, approvals, events, createCalled, createOk>>

call_balance_of_batch(owners, token_ids) ==
    /\ call' = Call("balance_of_batch", None, 0, 0, owners, token_ids)
    /\ ret' = Output(balance_of_batch(balances, owners, token_ids))
    /\ UNCHANGED <<balances, approvals, events, createCalled, createOk>>

\* ------------------------------------------------------------------------
\* SongnftTokenReceiver: both entry points are unimplemented!(), the call
\* panics and the host reverts it.
\* ------------------------------------------------------------------------
\* The 4-byte selectors an accepting receiver would have to return
ON_ERC_1155_RECEIVED_SELECTOR == <<242, 58, 110, 97>>
ON_ERC_1155_BATCH_RECEIVED_SELECTOR == <<188, 25, 124, 129>>

on_received_accepting(operator, from, token_id, value, data) ==
    /\ call' = Call("on_received", None, 0, 0, <<>>, <<>>)
    /\ ret' = Output(ON_ERC_1155_RECEIVED_SELECTOR)
    /\ UNCHANGED <<balances, approvals, events, createCalled, createOk>>

on_received(operator, from, token_id, value, data) ==
    /\ call' = Call("on_received", None, 0, 0, <<>>, <<>>)
    /\ ret' = Abort
    /\ UNCHANGED <<balances, approvals, events, createCalled, createOk>>

on_batch_received(operator, from, token_ids, values, data) ==
    /\ call' = Call("on_batch_received", None, 0, 0, <<>>, <<>>)
    /\ ret' = Abort
    /\ UNCHANGED <<balances, approvals, events, createCalled, createOk>>

\* ------------------------------------------------------------------------
\* Specification
\* ------------------------------------------------------------------------
Next ==
    \/ \E caller \in AccountId, value \in Balance, token_id \in TokenId :
           create(caller, value, token_id)
    \/ \E caller \in AccountId, token_id \in TokenId, value \in Balance :
           mint(caller, token_id, value)
    \/ \E owner \in AccountId, token_id \in TokenId :
           call_balance_of(owner, token_id)
    \/ \E owners \in ProbeOwners, token_ids \in ProbeTokens :
           call_balance_of_batch(owners, token_ids)
    \/ \E operator \in AccountId, from \in ReceivedFrom,
          token_id \in ReceivedTokenIds, value \in ReceivedValues, data \in Data :
           on_received(operator, from, token_id, value, data)
    \/ \E operator \in AccountId, from \in ReceivedFrom,
          token_ids \in ReceivedTokenSeqs, values \in ReceivedValueSeqs,
          data \in Data :
           on_batch_received(operator, from, token_ids, values, data)

Spec == Init /\ [][Next]_vars

\* ------------------------------------------------------------------------
\* The batch query on its own: a ledger as some creates leave it (as the
\* tests' init_contract builds one), then one balance_of_batch call with any
\* pair of sequences up to MaxBatch long.  The query changes no store, so a
\* second call would start from the same ledger.
\* ------------------------------------------------------------------------
Ledgers ==
    UNION {[D -> Balance] : D \in {S \in SUBSET Keys : Cardinality(S) <= MaxEvents}}

KeyLeq(x, y) == x[1] < y[1] \/ (x[1] = y[1] /\ x[2] <= y[2])

\* The events of create(m[k], k[2]) by k[1], for the keys k of S in order
RECURSIVE CreationLog(_, _)
CreationLog(m, S) ==
    IF S = {} THEN <<>>
    ELSE LET k == CHOOSE x \in S : \A y \in S : KeyLeq(x, y)
         IN  <<TransferSingle(Some(k[1]), None, create_to(k[1], m[k]), k[2], m[k])>>
             \o CreationLog(m, S \ {k})

InitBatch ==
    \E m \in Ledgers :
        /\ balances = m
        /\ approvals = {}
        /\ events = CreationLog(m, DOMAIN m)
        /\ call = NoCall
        /\ ret = OkUnit
        /\ createCalled = DOMAIN m
        /\ createOk = [k \in Keys |-> IF k \in DOMAIN m THEN 1 ELSE 0]

NextBatch ==
    /\ call.op = "new"
    /\ \E owners \in OwnerSeqs, token_ids \in TokenSeqs :
           call_balance_of_batch(owners, token_ids)

SpecBatch == InitBatch /\ [][NextBatch]_vars

TypeOK ==
    /\ DOMAIN balances \subseteq Keys
    /\ \A k \in DOMAIN balances : balances[k] \in Balance
    /\ approvals \subseteq AccountId \X AccountId
    /\ Len(events) <= MaxEvents
    /\ createCalled \subseteq Keys

\* ------------------------------------------------------------------------
\* Properties
\* ------------------------------------------------------------------------
\* The arguments of the call a step makes (read in the step's second state)
CallerOf(c) == c.caller[1]
KeyOf(c) == <<c.caller[1], c.token_id>>

\* C1: create(v, t) by caller c on a pair (c, t) without an entry returns
\* Ok(t), leaves balance_of(c, t) = v and appends exactly one TransferSingle
\* with operator = c, from = None, token_id = t, value = v and to = None when
\* v = 0, to = c otherwise.
C1_CreateFresh ==
    [][(call'.op = "create" /\ KeyOf(call') \notin DOMAIN balances) =>
        LET c == CallerOf(call')
            t == call'.token_id
            v == call'.value
        IN  /\ ret' = OkId(t)
            /\ balance_of(balances', c, t) = v
            /\ events' = Append(events,
                   [operator |-> Some(c), from |-> None,
                    to |-> IF v = 0 THEN None ELSE Some(c),
                    token_id |-> t, value |-> v])]_vars

\* a create of value 0 has just succeeded and announced to = None
C1_Witness ==
    /\ call.op = "create" /\ ret.tag = "Ok" /\ call.value = 0
    /\ ret.id = call.token_id
    /\ events # <<>> /\ events[Len(events)].to = None
    /\ balance_of(balances, CallerOf(call), call.token_id) = 0

\* C2: once a create by c for t has returned Ok, every later create by c for
\* t returns TokenAlreadyExists, changes no balance and emits no event,
\* whatever the balance is now; so no pair sees two successful creates.
C2_DuplicateCreateFails ==
    [][/\ \A k \in Keys : createOk'[k] <= 1
       /\ (call'.op = "create" /\ createOk[KeyOf(call')] >= 1) =>
            /\ ret' = Err("TokenAlreadyExists")
            /\ balances' = balances
            /\ events' = events]_vars

\* a second create failed although a mint had set the balance back to zero
C2_Witness ==
    /\ call.op = "create" /\ ret.tag = "Err" /\ ret.err = "TokenAlreadyExists"
    /\ createOk[KeyOf(call)] = 1
    /\ balances[KeyOf(call)] = 0
    /\ Len(events) >= 2
    /\ events[Len(events)].to = call.caller
    /\ events[Len(events)].token_id = call.token_id

\* C3: mint(t, v2) by a caller c that created t returns Ok, leaves
\* balance_of(c, t) = v2 whatever the balance was, and appends exactly one
\* TransferSingle with operator = c, from = None, to = c, token_id = t,
\* value = v2.
C3_MintOverwrites ==
    [][(call'.op = "mint" /\ createOk[KeyOf(call')] >= 1) =>
        LET c == CallerOf(call')
            t == call'.token_id
            v2 == call'.value
        IN  /\ ret' = OkUnit
            /\ balance_of(balances', c, t) = v2
            /\ events' = Append(events,
                   [operator |-> Some(c), from |-> None, to |-> Some(c),
                    token_id |-> t, value |-> v2])]_vars

\* a mint of a smaller value replaced a larger balance
C3_Witness ==
    /\ call.op = "mint" /\ ret.tag = "Ok"
    /\ Len(events) >= 2
    /\ events[Len(events) - 1].operator = call.caller
    /\ events[Len(events) - 1].token_id = call.token_id
    /\ events[Len(events) - 1].value > call.value
    /\ balances[KeyOf(call)] = call.value

\* C4: mint(t, v) by a caller that never created t returns
\* UnexistentTokenOrCallerNotOwner, whether or not other accounts created t;
\* it creates no entry, changes no balance and emits no event.
C4_MintWithoutCreateFails ==
    [][(call'.op = "mint" /\ createOk[KeyOf(call')] = 0) =>
            /\ ret' = Err("UnexistentTokenOrCallerNotOwner")
            /\ KeyOf(call') \notin DOMAIN balances'
            /\ balances' = balances
            /\ events' = events]_vars

\* a mint failed for a token that only another account has created
C4_Witness ==
    /\ call.op = "mint" /\ ret.tag = "Err"
    /\ ret.err = "UnexistentTokenOrCallerNotOwner"
    /\ KeyOf(call) \notin DOMAIN balances
    /\ \E a \in AccountId :
          /\ a # CallerOf(call)
          /\ <<a, call.token_id>> \in DOMAIN balances
          /\ balances[<<a, call.token_id>>] > 0

\* C5: balance_of(a, t) is 0 for every pair (a, t) that create was never
\* called with by a, and a balance_of call on such a pair returns the value 0.
C5_UnknownPairIsZero ==
    /\ \A a \in AccountId, t \in TokenId :
          <<a, t>> \notin createCalled => balance_of(balances, a, t) = 0
    /\ call.op = "balance_of" =>
          /\ ret.tag = "Value"
          /\ <<call.owners[1], call.token_id>> \notin createCalled
                => ret.amount = 0

\* balance_of returned 0 for an account that never created the token while
\* another account holds a positive balance of the same token-id
C5_Witness ==
    /\ call.op = "balance_of" /\ ret.tag = "Value" /\ ret.amount = 0
    /\ <<call.owners[1], call.token_id>> \notin createCalled
    /\ \E a \in AccountId :
          /\ <<a, call.token_id>> \in createCalled
          /\ balance_of(balances, a, call.token_id) > 0

\* C6: balance_of_batch(owners, token_ids) returns |owners| x |token_ids|
\* values, the one at index i * |token_ids| + j (counting i, j from 0) being
\* balance_of(owners[i], token_ids[j]); empty, unequal and repeating inputs
\* included.
C6_BatchIsCrossProduct ==
    call.op = "balance_of_batch" =>
        LET n == Len(call.owners)
            k == Len(call.token_ids)
        IN  /\ ret.tag = "Value"
            /\ Len(ret.output) = n * k
            /\ \A i \in 1..n, j \in 1..k :
                  ret.output[(i - 1) * k + j] =
                      balance_of(balances, call.owners[i], call.token_ids[j])

\* a batch query over sequences of unequal length returned a zero after a
\* non-zero value
C6_Witness ==
    /\ call.op = "balance_of_batch"
    /\ Len(call.owners) > Len(call.token_ids)
    /\ call.token_ids # <<>>
    /\ \E i, j \in 1..Len(ret.output) :
          i < j /\ ret.output[i] # 0 /\ ret.output[j] = 0

\* Sum of the values of the events of log for token t with to = a
RECURSIVE SumTo(_, _, _)
SumTo(log, a, t) ==
    IF log = <<>> THEN 0
    ELSE (IF Head(log).token_id = t /\ Head(log).to = Some(a)
          THEN Head(log).value ELSE 0)
         + SumTo(Tail(log), a, t)

\* Sum of the values of the events of log for token t with from = a
RECURSIVE SumFrom(_, _, _)
SumFrom(log, a, t) ==
    IF log = <<>> THEN 0
    ELSE (IF Head(log).token_id = t /\ Head(log).from = Some(a)
          THEN Head(log).value ELSE 0)
         + SumFrom(Tail(log), a, t)

\* C7: for every account a and token-id t the balance of (a, t) is the sum
\* of the values of the events for t with to = a minus the sum of the values
\* of those with from = a.
C7_BalanceIsEventSum ==
    \A a \in AccountId, t \in TokenId :
        balance_of(balances, a, t) = SumTo(events, a, t) - SumFrom(events, a, t)

\* C8: every step keeps the events emitted so far as a prefix of the log; a
\* create or mint that returns Ok appends exactly one TransferSingle and
\* writes the balance it announces; a call that returns an error, a query or
\* an aborted call appends no event and writes no balance.
C8_EventsAppendOnlyAllOrNothing ==
    [][/\ Len(events) <= Len(events')
       /\ SubSeq(events', 1, Len(events)) = events
       /\ (call'.op \in {"create", "mint"} /\ ret'.tag = "Ok") =>
            /\ Len(events') = Len(events) + 1
            /\ events'[Len(events')].operator = call'.caller
            /\ events'[Len(events')].token_id = call'.token_id
            /\ events'[Len(events')].value = call'.value
            /\ KeyOf(call') \in DOMAIN balances'
            /\ balances'[KeyOf(call')] = call'.value
       /\ (call'.op \notin {"create", "mint"} \/ ret'.tag # "Ok") =>
            /\ events' = events
            /\ balances' = balances]_vars

\* a mint was refused after two events had been emitted
C8_Witness ==
    /\ call.op = "mint" /\ ret.tag = "Err"
    /\ Len(events) >= 2
    /\ events[1] # events[2]
    /\ DOMAIN balances # {}

\* C9: the set of pairs with an entry only grows, and a pair (a, t) enters it
\* only in a step that is a create for t by a returning Ok.
C9_EntriesOnlyByCreate ==
    [][/\ DOMAIN balances \subseteq DOMAIN balances'
       /\ \A k \in (DOMAIN balances') \ (DOMAIN balances) :
            /\ call'.op = "create"
            /\ ret'.tag = "Ok"
            /\ call'.caller = Some(k[1])
            /\ call'.token_id = k[2]]_vars

\* a create and then a mint succeeded and the ledger holds the one entry
C9_Witness ==
    /\ call.op = "mint" /\ ret.tag = "Ok"
    /\ Len(events) >= 2
    /\ DOMAIN balances = {KeyOf(call)}
    /\ createOk[KeyOf(call)] = 1

\* C10: create(v, t) by b succeeds whenever b has not created t, also when
\* another account a has created t; afterwards balance_of(a, t) is what it was
\* and balance_of(b, t) = v.
C10_TokenIdsPerAccount ==
    [][(call'.op = "create" /\ createOk[KeyOf(call')] = 0) =>
        LET b == CallerOf(call')
            t == call'.token_id
        IN  /\ ret' = OkId(t)
            /\ balances'[<<b, t>>] = call'.value
            /\ \A a \in AccountId \ {b} :
                  /\ (<<a, t>> \in DOMAIN balances') = (<<a, t>> \in DOMAIN balances)
                  /\ balance_of(balances', a, t) = balance_of(balances, a, t)]_vars

\* two accounts hold the same token-id with different balances
C10_Witness ==
    /\ call.op = "create" /\ ret.tag = "Ok"
    /\ \E a \in AccountId \ {CallerOf(call)} :
          /\ <<a, call.token_id>> \in DOMAIN balances
          /\ balances[<<a, call.token_id>>] > 0
          /\ balances[<<a, call.token_id>>] # balances[KeyOf(call)]
          /\ events[1].operator = Some(a)

\* C11: on_received and on_batch_received abort in every state and for every
\* input: they return no value, neither selector in particular, and the call
\* changes no balance, no approval and emits no event.
C11_ReceiverAlwaysAborts ==
    [][call'.op \in {"on_received", "on_batch_received"} =>
        /\ ret' = Abort
        /\ ret'.tag \notin {"Ok", "Value"}
        /\ ret'.output \notin {ON_ERC_1155_RECEIVED_SELECTOR,
                               ON_ERC_1155_BATCH_RECEIVED_SELECTOR}
        /\ balances' = balances
        /\ approvals' = approvals
        /\ events' = events]_vars

\* on_received aborted on a ledger that holds a balance and has emitted events
C11_Witness ==
    /\ call.op = "on_received" /\ ret.tag = "Abort"
    /\ events # <<>>
    /\ \E k \in DOMAIN balances : balances[k] > 0

\* C12: no emitted TransferSingle has to = Some(zero address), the zero
\* address being a possible caller like every other account.
C12_ZeroAddressNeverRecipient ==
    \A i \in 1..Len(events) : events[i].to # Some(zero_address)

\* C13: no account holds an approval entry for itself; no message writes the
\* Approval Store, which stays empty as constructed.
C13_NoSelfApproval ==
    /\ \A a \in AccountId : <<a, a>> \notin approvals
    /\ approvals = {}

\* creates and mints have filled the log and the store of approvals is empty
C13_Witness ==
    /\ call.op \in {"create", "mint"} /\ ret.tag = "Ok"
    /\ Len(events) >= 2
    /\ approvals = {}

\* C14: balance_of and balance_of_batch leave the Balance Store, the Approval
\* Store and the event log unchanged, and balance_of returns what the store
\* holds for the pair (0 without an entry), so repeating it with no create or
\* mint in between returns the same value.
C14_QueriesArePureReads ==
    [][/\ call'.op \in {"balance_of", "balance_of_batch"} =>
            /\ balances' = balances
            /\ approvals' = approvals
            /\ events' = events
       /\ call'.op = "balance_of" =>
            LET k == <<call'.owners[1], call'.token_id>>
            IN  ret'.amount = IF k \in DOMAIN balances THEN balances[k] ELSE 0
       /\ (call.op = "balance_of" /\ call'.op = "balance_of"
           /\ call'.owners = call.owners /\ call'.token_id = call.token_id) =>
            ret'.amount = ret.amount]_vars

\* balance_of returned a positive balance and left an unrelated pair absent
C14_Witness ==
    /\ call.op = "balance_of" /\ ret.tag = "Value" /\ ret.amount > 0
    /\ events # <<>>
    /\ DOMAIN balances # Keys

\* C15: a create or mint by c for t changes at most the entry (c, t): every
\* other pair keeps its existence and its value; so a call by an account other
\* than a changes balance_of(a, t) for no t.
C15_OnlyOwnEntryChanges ==
    [][\/ balances' = balances
       \/ \A k \in (DOMAIN balances) \cup (DOMAIN balances') :
            /\ (call'.op \notin {"create", "mint"} \/ k # KeyOf(call')) =>
                  /\ k \in DOMAIN balances /\ k \in DOMAIN balances'
                  /\ balances'[k] = balances[k]
            /\ call'.caller # Some(k[1]) =>
                  balance_of(balances', k[1], k[2]) = balance_of(balances, k[1], k[2])]_vars

\* a create of value 0 succeeded while another account keeps its positive
\* balance, the one its own event announced
C15_Witness ==
    /\ call.op = "create" /\ ret.tag = "Ok" /\ call.value = 0
    /\ \E k \in DOMAIN balances :
          /\ k[1] # CallerOf(call)
          /\ balances[k] > 0
          /\ events[1].operator = Some(k[1])
          /\ events[1].value = balances[k]

\* The positions in the log of the events with operator = a and token_id = t
EventsOf(a, t) ==
    {i \in 1..Len(events) :
        events[i].operator = Some(a) /\ events[i].token_id = t}

Last(S) == CHOOSE i \in S : \A j \in S : j <= i

\* C16: the pair (a, t) has an entry iff the log holds an event with
\* operator = a and token_id = t, and then balance_of(a, t) is the value of
\* the most recent such event.
C16_LogAndStoreAgree ==
    \A a \in AccountId, t \in TokenId :
        /\ (<<a, t>> \in DOMAIN balances) = (EventsOf(a, t) # {})
        /\ EventsOf(a, t) # {} =>
              balance_of(balances, a, t) = events[Last(EventsOf(a, t))].value

\* a pair created with value 0 (event to = None) and another pair whose
\* balance a later event replaced
C16_Witness ==
    /\ Len(events) >= 2
    /\ events[1].to = None
    /\ \E a \in AccountId, t \in TokenId :
          /\ Cardinality(EventsOf(a, t)) >= 2
          /\ balances[<<a, t>>] > 0

\* C17: create returns no error but TokenAlreadyExists, mint none but
\* UnexistentTokenOrCallerNotOwner, the other six kinds are returned by no
\* message, and balance_of_batch returns a value also for unequal lengths.
C17_ErrorSurface ==
    /\ ret.tag = "Err" =>
          /\ ret.err \in Error
          /\ \/ call.op = "create" /\ ret.err = "TokenAlreadyExists"
             \/ call.op = "mint" /\ ret.err = "UnexistentTokenOrCallerNotOwner"
    /\ ret.err \notin {"UnexistentToken", "ZeroAddressTransfer", "NotApproved",
                       "InsufficientBalance", "SelfApproval",
                       "BatchTransferMismatch"}
    /\ call.op = "create" => ret.err \in {"", "TokenAlreadyExists"}
    /\ call.op = "mint" => ret.err \in {"", "UnexistentTokenOrCallerNotOwner"}
    /\ call.op \in {"balance_of", "balance_of_batch"} => ret.tag = "Value"

\* a batch query with sequences of unequal length returned its values
C17_Witness ==
    /\ call.op = "balance_of_batch" /\ ret.tag = "Value"
    /\ Len(call.owners) # Len(call.token_ids)
    /\ Len(ret.output) = Len(call.owners) * Len(call.token_ids)
    /\ \E i \in 1..Len(ret.output) : ret.output[i] > 0
====
